---------------------------- MODULE Spec2Model ----------------------------
(* A model of scrape_ourlads_depth_charts.py: the line parser parse_pf_page *)
(* (one action per branch of its two loops) driven by the team loop of      *)
(* main.  A text line is a sequence of characters; a character is a         *)
(* one-letter string, or the name of a code point ("U+00B2") where the      *)
(* character is not ASCII.  The absent value None is the empty sequence,    *)
(* which no stripped non-empty line, unit name or position code can equal.  *)
EXTENDS Integers, Sequences, FiniteSets, TLC

-----------------------------------------------------------------------------
(* Python str methods, by what they do on the characters of the model.      *)

LowerCase == <<"a","b","c","d","e","f","g","h","i","j","k","l","m",
               "n","o","p","q","r","s","t","u","v","w","x","y","z">>

UpperCase == <<"A","B","C","D","E","F","G","H","I","J","K","L","M",
               "N","O","P","Q","R","S","T","U","V","W","X","Y","Z">>

Range(f) == {f[x] : x \in DOMAIN f}

LowerLetters == Range(LowerCase)

UpperLetters == Range(UpperCase)

\* U+4E2D is a letter (category Lo) that has no case.
CaselessLetters == {"U+4E2D"}

DecimalDigits == {"0","1","2","3","4","5","6","7","8","9"}

\* U+00B2 (superscript two) has Numeric_Type=Digit but is no decimal digit.
OtherDigits == {"U+00B2"}

Whitespace == {" "}

IndexOf(seq, c) == CHOOSE k \in DOMAIN seq : seq[k] = c

CharLower(c) == IF c \in UpperLetters THEN LowerCase[IndexOf(UpperCase, c)] ELSE c

CharUpper(c) == IF c \in LowerLetters THEN UpperCase[IndexOf(LowerCase, c)] ELSE c

CharIsCased(c) == c \in LowerLetters \cup UpperLetters

\* str.lower()
Lower(s) == [k \in DOMAIN s |-> CharLower(s[k])]

\* str.upper()
Upper(s) == [k \in DOMAIN s |-> CharUpper(s[k])]

\* str.isalpha(): at least one character and every character a letter
IsAlpha(s) ==
    /\ Len(s) > 0
    /\ \A k \in DOMAIN s : s[k] \in LowerLetters \cup UpperLetters \cup CaselessLetters

\* str.isdigit(): at least one character and every character a digit
IsDigit(s) ==
    /\ Len(s) > 0
    /\ \A k \in DOMAIN s : s[k] \in DecimalDigits \cup OtherDigits

\* str.startswith(p)
StartsWith(s, p) == Len(s) >= Len(p) /\ SubSeq(s, 1, Len(p)) = p

\* the positions at which sub occurs in s
Occurrences(s, sub) ==
    {k \in 1..(Len(s) - Len(sub) + 1) : SubSeq(s, k, k + Len(sub) - 1) = sub}

\* sub in s
Contains(s, sub) == Occurrences(s, sub) # {}

\* s.replace(sub, ""), sub not empty: left to right, occurrences not overlapping
RECURSIVE Remove(_, _)
Remove(s, sub) ==
    IF Len(s) < Len(sub) \/ Len(s) = 0 THEN s
    ELSE IF SubSeq(s, 1, Len(sub)) = sub
         THEN Remove(SubSeq(s, Len(sub) + 1, Len(s)), sub)
         ELSE <<s[1]>> \o Remove(Tail(s), sub)

\* s.strip(chars): drop the leading and the trailing characters that are in cs
RECURSIVE StripChars(_, _)
StripChars(s, cs) ==
    IF Len(s) = 0 THEN s
    ELSE IF s[1] \in cs THEN StripChars(Tail(s), cs)
    ELSE IF s[Len(s)] \in cs THEN StripChars(SubSeq(s, 1, Len(s) - 1), cs)
    ELSE s

\* s.strip()
Strip(s) == StripChars(s, Whitespace)

\* s.replace("-", " ")
HyphensToSpaces(s) == [k \in DOMAIN s |-> IF s[k] = "-" THEN " " ELSE s[k]]

\* str.title(): a cased character is upper-cased when the character before it
\* is not cased (or there is none), and lower-cased otherwise
Title(s) ==
    [k \in DOMAIN s |->
        IF k > 1 /\ CharIsCased(s[k - 1]) THEN CharLower(s[k]) ELSE CharUpper(s[k])]

-----------------------------------------------------------------------------
(* String literals of the source.                                           *)

None == <<>>

sOffense == <<"O","f","f","e","n","s","e">>

sDefense == <<"D","e","f","e","n","s","e">>

sSpecialTeams == <<"S","p","e","c","i","a","l"," ","T","e","a","m","s">>

sOffenseLow == <<"o","f","f","e","n","s","e">>

sDefenseLow == <<"d","e","f","e","n","s","e">>

sSpecialTeamsLow == <<"s","p","e","c","i","a","l"," ","t","e","a","m","s">>

sUnknown == <<"U","n","k","n","o","w","n">>

sDepthChart == <<"D","e","p","t","h"," ","C","h","a","r","t">>

sPrinterFriendly == <<"P","r","i","n","t","e","r","-","F","r","i","e","n","d","l","y">>

sUpdatedLow == <<"u","p","d","a","t","e","d">>

sHyphen == <<"-">>

header_tokens ==
    { <<"P","o","s">>,
      <<"N","o">>,
      <<"P","l","a","y","e","r">>,
      <<"P","l","a","y","e","r"," ","1">>,
      <<"P","l","a","y","e","r"," ","2">>,
      <<"P","l","a","y","e","r"," ","3">>,
      <<"P","l","a","y","e","r"," ","4">>,
      <<"P","l","a","y","e","r"," ","5">> }

\* the tuple ("offense", "defense", "special teams") of lines 179 and 199
section_names == {sOffenseLow, sDefenseLow, sSpecialTeamsLow}

\* str.capitalize(): the first character upper-cased, the others lower-cased
Capitalize(s) == [k \in DOMAIN s |-> IF k = 1 THEN CharUpper(s[k]) ELSE CharLower(s[k])]

\* a slip in line 90: capitalize() for title()
clean_name_token_capitalize(token) == Capitalize(HyphensToSpaces(token))

clean_name_token(token) == Title(HyphensToSpaces(token))

is_position_token(token) ==
    IsAlpha(token) /\ Upper(token) = token /\ ~Contains(token, sHyphen)

-----------------------------------------------------------------------------
(* Input lines.  A page text is the list `lines` of line 112: its lines are *)
(* stripped and not empty.                                                  *)

lWR == <<"W","R">>

l1 == <<"1">>

l2 == <<"2">>

l12 == <<"1","2">>

l07 == <<"0","7">>

lBrady == <<"b","r","a","d","y","-","a","n","d","e","r","s","o","n">>

lJohn == <<"j","o","h","n","-","d","o","e">>

lPos == <<"P","o","s">>

lUpdated == <<"U","p","d","a","t","e","d">>

lArmy == <<"A","r","m","y"," ","D","e","p","t","h"," ","C","h","a","r","t">>

lBareMarker == <<"D","e","p","t","h"," ","C","h","a","r","t">>

\* one digit that is not decimal, one letter that has no case
lSuperTwo == <<"U+00B2">>

lHan == <<"U+4E2D">>

\* the longest run of lines enumerated exhaustively after a preamble
MaxLen == 4

\* the longest list of team pages main is run on
MaxTeams == 3

Alphabet == {sOffense, sSpecialTeamsLow, lWR, l07, lJohn, lPos, lUpdated, lArmy}

BSeq(S, m) == UNION {[1..k -> S] : k \in 0..m}

\* a position group with one complete jersey/name pair after the first jersey
Scen1Prefix == <<sOffense, lWR, l1, lBrady, l12, lJohn>>

Scenario1 == Scen1Prefix \o <<sDefense>>

Scenario3 == <<sOffense, lWR, lUpdated>>

Scenario5 == <<sOffense, lWR, l1, lBrady, l2, sDefense>>

ScenarioBareMarker == <<lBareMarker, sOffense, lWR, l1, l2, lJohn>>

ScenarioUnicode == <<sOffense, lHan, lSuperTwo, lSuperTwo, lJohn>>

\* the position code of the first group opens a second group in the same unit
ScenarioRepeatedPosition == Scen1Prefix \o <<l2, lBrady, lWR, l07, l07, lJohn>>

lAj == <<"a","j","-","s","m","i","t","h">>

\* the longest name token enumerated exhaustively
MaxNameLen == 3

\* a lowercase letter, an uppercase letter, the hyphen and the apostrophe
NameChars == {"a", "B", "-", "'"}

NameTokens == UNION {[1..k -> NameChars] : k \in 1..MaxNameLen} \cup {lAj}

\* a group whose one pair has the token t as name
NameScenario(t) == <<sOffense, lWR, l1, l2, t>>

lNo == <<"N","o">>

lPlayer1 == <<"P","l","a","y","e","r"," ","1">>

lJohnDoe == <<"J","o","h","n"," ","D","o","e">>

lNavy == <<"N","a","v","y"," ","D","e","p","t","h"," ","C","h","a","r","t">>

lPrinterFriendly == <<"P","r","i","n","t","e","r","-","F","r","i","e","n","d","l","y"," ","D","e","p","t","h"," ","C","h","a","r","t","s">>

lUnknownChart == <<"U","n","k","n","o","w","n"," ","D","e","p","t","h"," ","C","h","a","r","t">>

\* lines 110-112: get_text puts the text of every cell of a table on a line of
\* its own, row after row, and the comprehension drops the empty ones
RECURSIVE TableLines(_)
TableLines(rows) ==
    IF rows = <<>> THEN <<>>
    ELSE SelectSeq(Head(rows), LAMBDA cell : Strip(cell) # <<>>) \o TableLines(Tail(rows))

HeaderRow == <<lPos, lNo, lPlayer1>>

\* tables with one data row, with the header row repeated as data, and with
\* a row of two cells
Tables ==
    {<<HeaderRow, <<lWR, l12, lJohnDoe>>>>,
     <<HeaderRow, HeaderRow, <<lWR, l12, lJohnDoe>>>>,
     <<HeaderRow, <<lWR, l12>>, <<lWR, l12, lJohnDoe>>>>}

\* a page whose table follows the heading of the offense
TablePage(rows) == <<sOffense>> \o TableLines(rows)

\* a section header where the name of the first pair of a group is expected
ScenarioHeaderAsName == <<sOffense, lWR, l1, l2, sDefense, lWR, l1, l2, lJohn>>

\* the generic heading, then two lines that name a team
ScenarioTwoTeamLines == <<lPrinterFriendly, lArmy, lNavy, sOffense, lWR, l1, l2, lJohn>>

\* the one line that names a team names it Unknown
ScenarioTeamUnknown == <<lUnknownChart, sOffense, lWR, l1, l2, lJohn>>

Scenarios ==
    {Scenario1, Scenario3, Scenario5, ScenarioBareMarker, ScenarioUnicode,
     ScenarioRepeatedPosition, ScenarioHeaderAsName, ScenarioTwoTeamLines,
     ScenarioTeamUnknown}
        \cup {NameScenario(t) : t \in NameTokens}
        \cup {TablePage(rows) : rows \in Tables}

Preambles == {<<>>, <<sOffense>>, Scen1Prefix}

PageTexts == {p \o s : p \in Preambles, s \in BSeq(Alphabet, MaxLen)} \cup Scenarios

Page(text) == [ok |-> TRUE, text |-> text]

\* a page whose download raises (requests.get or raise_for_status, lines 22-23)
FetchError == [ok |-> FALSE, text |-> <<>>]

SmallPages ==
    { FetchError,
      Page(Scenario1),
      Page(<<sOffense, lWR, l07, l07, lJohn>>),
      Page(<<lArmy, lWR, l07, l07, lJohn, sOffense>>) }

TeamLists ==
    {<<Page(t)>> : t \in PageTexts} \cup {<<FetchError>>}
        \cup UNION {[1..k -> SmallPages] : k \in 2..MaxTeams}

-----------------------------------------------------------------------------
(* State.                                                                   *)

VARIABLES
    team_pages,    \* what get_soup gives for each url of team_urls, in order
    u,             \* main: the index of the url the for loop is at
    mpc,           \* main: "teams" (in the for loop), "parsing", "written"
    all_records,   \* main: all_records
    csv,           \* the rows written to the output file
    outs,          \* history: per url, what parse_team returned or that it raised
    lines, n, team_name, records, current_unit, current_pos, depth, i,
                   \* the locals of parse_pf_page; depth 0 is depth unbound
    pc,            \* parse_pf_page: "outer" (line 134) or "inner" (line 172)
    pos_line,      \* history: the index of the line that set current_pos, or -1
    src            \* history: per record, the indices of the lines it was built from

vars == <<team_pages, u, mpc, all_records, csv, outs, lines, n, team_name, records,
          current_unit, current_pos, depth, i, pc, pos_line, src>>

mainVars == <<team_pages, u, mpc, all_records, csv, outs>>

\* lines[k] of the source (0-based)
Line(k) == lines[k + 1]

Init ==
    /\ team_pages \in TeamLists
    /\ u = 1
    /\ mpc = "teams"
    /\ all_records = <<>>
    /\ csv = <<>>
    /\ outs = <<>>
    /\ lines = <<>>
    /\ n = 0
    /\ team_name = None
    /\ records = <<>>
    /\ current_unit = None
    /\ current_pos = None
    /\ depth = 0
    /\ i = 0
    /\ pc = "outer"
    /\ pos_line = -1
    /\ src = <<>>

-----------------------------------------------------------------------------
(* parse_pf_page.                                                           *)

Qualifies(line) == Contains(line, sDepthChart) /\ ~Contains(line, sPrinterFriendly)

\* a slip in lines 117-120: no break, the last qualifying line wins
TeamNameOfLast(ls) ==
    IF \E k \in DOMAIN ls : Qualifies(ls[k])
    THEN LET k == CHOOSE j \in DOMAIN ls :
                    Qualifies(ls[j]) /\ \A m \in (j + 1)..Len(ls) : ~Qualifies(ls[m])
         IN  Strip(StripChars(Strip(Remove(ls[k], sDepthChart)), {"#"}))
    ELSE sUnknown

\* lines 116-120: the first qualifying line, marker removed and stripped
TeamNameOf(ls) ==
    IF \E k \in DOMAIN ls : Qualifies(ls[k])
    THEN LET k == CHOOSE j \in DOMAIN ls :
                    Qualifies(ls[j]) /\ \A m \in 1..(j - 1) : ~Qualifies(ls[m])
         IN  Strip(StripChars(Strip(Remove(ls[k], sDepthChart)), {"#"}))
    ELSE sUnknown

\* a slip in line 124: the parser starts inside a default unit
InitialUnitDefault == sOffense

\* a slip in line 124: the unit is state kept from the call before
InitialUnitStale == current_unit

\* line 124
InitialUnit == None

\* a slip in line 156: lines are not ignored outside a section
InSectionAlways == TRUE

\* line 156, negated
InSection == current_unit # None

\* line 161
\* a slip in the bound tests: the index n passes
HasLineOffByOne(k) == k <= n

\* lines 134, 166, 172, 183 and 193: the tests of an index against n
HasLine(k) == k < n

IsHeaderOrUpdated(t) == t \in header_tokens \/ StartsWith(Lower(t), sUpdatedLow)

\* a slip in lines 166 and 183: the next line is not looked at
IsNewPositionNoPeek(k) == is_position_token(Line(k))

\* lines 166 and 183: a position token whose next line is a digit line
IsNewPosition(k) == is_position_token(Line(k)) /\ HasLine(k + 1) /\ IsDigit(Line(k + 1))

\* line 169
AfterPosition == i + 2

\* a slip in line 188: continue without advancing
AfterStrayStuck == i

\* line 188
AfterStray == i + 1

\* a slip in line 189: break in the place of continue
StrayBreaks == "outer"

\* line 189: continue, the inner loop goes on
StrayContinues == "inner"

\* a slip in lines 192 and 197: the name line is not stepped over
AfterPairNameKept == i + 1

\* lines 192 and 197: past the jersey line and the name line
AfterPair == i + 2

\* a slip in line 214: the rank is not advanced
NextDepthNotAdvanced == depth

\* line 214
NextDepth == depth + 1

\* line 199
AbortsPair(name_token) ==
    name_token \in header_tokens \/ Lower(name_token) \in section_names

\* lines 204-213
Record(jersey, name_token) ==
    [team |-> team_name, unit_type |-> current_unit, position |-> current_pos,
     depth |-> depth, jersey |-> jersey, player |-> clean_name_token(name_token)]

InOuter == mpc = "parsing" /\ pc = "outer" /\ HasLine(i)

InInner == mpc = "parsing" /\ pc = "inner"

\* lines 107-127: the page is downloaded and the locals are set
ParseStart ==
    /\ mpc = "teams" /\ u <= Len(team_pages) /\ team_pages[u].ok
    /\ lines' = team_pages[u].text
    /\ team_name' = TeamNameOf(team_pages[u].text)
    /\ records' = <<>>
    /\ current_unit' = InitialUnit
    /\ current_pos' = None
    /\ i' = 0
    /\ n' = Len(team_pages[u].text)
    /\ mpc' = "parsing" /\ pc' = "outer"
    /\ pos_line' = -1 /\ src' = <<>>
    /\ UNCHANGED <<team_pages, u, all_records, csv, outs, depth>>

\* lines 139-153: one of the three section headers
SectionHeader(low, unit) ==
    /\ InOuter
    /\ Lower(Line(i)) = low
    /\ current_unit' = unit
    /\ current_pos' = None
    /\ i' = i + 1
    /\ UNCHANGED <<mainVars, lines, n, team_name, records, depth, pc, pos_line, src>>

HeaderOffense == SectionHeader(sOffenseLow, sOffense)

HeaderDefense == SectionHeader(sDefenseLow, sDefense)

HeaderSpecialTeams == SectionHeader(sSpecialTeamsLow, sSpecialTeams)

\* a step of the outer loop that only advances by one line
SkipLine ==
    /\ i' = i + 1
    /\ UNCHANGED <<mainVars, lines, n, team_name, records, current_unit, current_pos,
                   depth, pc, pos_line, src>>

\* lines 156-158
SkipNoUnit ==
    /\ InOuter
    /\ Lower(Line(i)) \notin section_names
    /\ ~InSection
    /\ SkipLine

\* lines 161-163
SkipHeaderOrUpdated ==
    /\ InOuter
    /\ Lower(Line(i)) \notin section_names
    /\ InSection
    /\ IsHeaderOrUpdated(Line(i))
    /\ SkipLine

\* lines 166-169
PositionEntry ==
    /\ InOuter
    /\ Lower(Line(i)) \notin section_names
    /\ InSection
    /\ ~IsHeaderOrUpdated(Line(i))
    /\ IsNewPosition(i)
    /\ current_pos' = Line(i)
    /\ depth' = 1
    /\ i' = AfterPosition
    /\ pc' = "inner"
    /\ pos_line' = i
    /\ UNCHANGED <<mainVars, lines, n, team_name, records, current_unit, src>>

\* lines 218-219
SkipOther ==
    /\ InOuter
    /\ Lower(Line(i)) \notin section_names
    /\ InSection
    /\ ~IsHeaderOrUpdated(Line(i))
    /\ ~IsNewPosition(i)
    /\ SkipLine

\* the inner loop is left; line 216 continues the outer loop
LeaveInner(to) ==
    /\ i' = to
    /\ pc' = "outer"
    /\ UNCHANGED <<mainVars, lines, n, team_name, records, current_unit, current_pos,
                   depth, pos_line, src>>

\* line 172, condition false
InnerExhausted ==
    /\ InInner
    /\ ~HasLine(i)
    /\ LeaveInner(i)

\* lines 179-180
InnerNewSection ==
    /\ InInner
    /\ HasLine(i)
    /\ Lower(Line(i)) \in section_names
    /\ LeaveInner(i)

\* lines 183-184
InnerNewPosition ==
    /\ InInner
    /\ HasLine(i)
    /\ Lower(Line(i)) \notin section_names
    /\ IsNewPosition(i)
    /\ LeaveInner(i)

InJerseySlot ==
    /\ InInner
    /\ HasLine(i)
    /\ Lower(Line(i)) \notin section_names
    /\ ~IsNewPosition(i)

\* lines 187-189
InnerSkipNonDigit ==
    /\ InJerseySlot
    /\ ~IsDigit(Line(i))
    /\ i' = AfterStray
    /\ pc' = StrayContinues
    /\ UNCHANGED <<mainVars, lines, n, team_name, records, current_unit, current_pos,
                   depth, pos_line, src>>

\* lines 191-194: the jersey line is the last line
InnerJerseyAtEnd ==
    /\ InJerseySlot
    /\ IsDigit(Line(i))
    /\ ~HasLine(i + 1)
    /\ LeaveInner(i + 1)

\* lines 191-200: the name token is a header token or a unit name
InnerAbortPair ==
    /\ InJerseySlot
    /\ IsDigit(Line(i))
    /\ HasLine(i + 1)
    /\ AbortsPair(Line(i + 1))
    /\ LeaveInner(i + 2)

\* lines 191-214
InnerEmit ==
    /\ InJerseySlot
    /\ IsDigit(Line(i))
    /\ HasLine(i + 1)
    /\ ~AbortsPair(Line(i + 1))
    /\ records' = Append(records, Record(Line(i), Line(i + 1)))
    /\ depth' = NextDepth
    /\ i' = AfterPair
    /\ src' = Append(src, [pos |-> pos_line, jersey |-> i, name |-> i + 1])
    /\ UNCHANGED <<mainVars, lines, n, team_name, current_unit, current_pos, pc, pos_line>>

-----------------------------------------------------------------------------
(* parse_team and main.                                                     *)

\* lines 134, 221-222, 230-232 and 242-243: the outer loop ends, the records
\* are returned and main extends all_records with them
ParseReturn ==
    /\ mpc = "parsing" /\ pc = "outer" /\ ~HasLine(i)
    /\ all_records' = all_records \o records
    /\ outs' = Append(outs, [ok |-> TRUE, records |-> records])
    /\ u' = u + 1
    /\ mpc' = "teams"
    /\ UNCHANGED <<team_pages, csv, lines, n, team_name, records, current_unit,
                   current_pos, depth, i, pc, pos_line, src>>

\* a slip in lines 241-245: the try statement around the loop, not in it
AfterFailureStops == Len(team_pages) + 1

\* lines 244-245: the exception is caught inside the loop, the next team follows
AfterFailure == u + 1

\* lines 242-245: get_soup raises inside parse_team, main catches it
FetchFails ==
    /\ mpc = "teams" /\ u <= Len(team_pages) /\ ~team_pages[u].ok
    /\ outs' = Append(outs, [ok |-> FALSE, records |-> <<>>])
    /\ u' = AfterFailure
    /\ UNCHANGED <<team_pages, mpc, all_records, csv, lines, n, team_name, records,
                   current_unit, current_pos, depth, i, pc, pos_line, src>>

\* lines 248-257
WriteOutput ==
    /\ mpc = "teams" /\ u > Len(team_pages)
    /\ csv' = all_records
    /\ mpc' = "written"
    /\ UNCHANGED <<team_pages, u, all_records, outs, lines, n, team_name, records,
                   current_unit, current_pos, depth, i, pc, pos_line, src>>

Next ==
    \/ ParseStart
    \/ HeaderOffense
    \/ HeaderDefense
    \/ HeaderSpecialTeams
    \/ SkipNoUnit
    \/ SkipHeaderOrUpdated
    \/ PositionEntry
    \/ SkipOther
    \/ InnerExhausted
    \/ InnerNewSection
    \/ InnerNewPosition
    \/ InnerSkipNonDigit
    \/ InnerJerseyAtEnd
    \/ InnerAbortPair
    \/ InnerEmit
    \/ ParseReturn
    \/ FetchFails
    \/ WriteOutput

Spec == Init /\ [][Next]_vars

Done == mpc = "written"

-----------------------------------------------------------------------------
(* Vocabulary of the properties.                                            *)

\* the outer loop of parse_pf_page has run to its end
ParseEnd == mpc = "parsing" /\ pc = "outer" /\ i >= n

IsSectionLine(l) == Lower(l) \in section_names

\* a position-code candidate of the line classifier: rule 4, after rules 1-3
Candidate(l) == is_position_token(l) /\ ~IsSectionLine(l) /\ ~IsHeaderOrUpdated(l)

\* free text of the line classifier: rule 5
FreeText(l) ==
    ~IsSectionLine(l) /\ ~IsHeaderOrUpdated(l) /\ ~IsDigit(l) /\ ~is_position_token(l)

\* line p is a position code followed by k jersey/name pairs
WellFormedPairs(p, k) ==
    /\ p >= 0 /\ p + 2 * k < n
    /\ Candidate(Line(p))
    /\ \A j \in 1..k : IsDigit(Line(p + 2 * j - 1)) /\ FreeText(Line(p + 2 * j))

\* the records built for the group that line p opened
GroupRecs(p) == {j \in DOMAIN records : src[j].pos = p}

\* the group of line p gave exactly k records, the d-th from the d-th pair
GroupIs(p, k) ==
    /\ Cardinality(GroupRecs(p)) = k
    /\ \A d \in 1..k : \E j \in GroupRecs(p) :
          /\ records[j].depth = d
          /\ records[j].jersey = Line(p + 2 * d - 1)
          /\ records[j].player = clean_name_token(Line(p + 2 * d))
          /\ records[j].position = Line(p)

\* the records of one parse that have the key of record j and come before it
EarlierSameKey(j) ==
    {m \in 1..(j - 1) :
        /\ records[m].team = records[j].team
        /\ records[m].unit_type = records[j].unit_type
        /\ records[m].position = records[j].position}

EarlierSameGroup(j) == {m \in 1..(j - 1) : src[m].pos = src[j].pos}

-----------------------------------------------------------------------------
(* C1.  A position line followed by a jersey line opens a group and the     *)
(* jersey line stays to be read as the first ranked entry: a group of k     *)
(* jersey/name pairs that ends at the end of the input, at a section header *)
(* or at the next position entry gives exactly k records, the j-th with the *)
(* j-th jersey, the j-th name and depth j; Scenario 1 gives the two records *)
(* (Offense, WR, 1, 1, Brady Anderson) and (Offense, WR, 2, 12, John Doe).  *)

GroupClosedAt(q) == q >= n \/ IsSectionLine(Line(q)) \/ IsNewPosition(q)

Scenario1Records ==
    << [team |-> sUnknown, unit_type |-> sOffense, position |-> lWR, depth |-> 1,
        jersey |-> l1, player |-> <<"B","r","a","d","y"," ","A","n","d","e","r","s","o","n">>],
       [team |-> sUnknown, unit_type |-> sOffense, position |-> lWR, depth |-> 2,
        jersey |-> l12, player |-> <<"J","o","h","n"," ","D","o","e">>] >>

C1_GroupKeepsFirstJersey ==
    /\ (mpc = "parsing" /\ pc = "outer" /\ pos_line >= 0) =>
          \A k \in 1..n :
             (WellFormedPairs(pos_line, k) /\ GroupClosedAt(pos_line + 2 * k + 1))
                => GroupIs(pos_line, k)
    /\ (ParseEnd /\ lines = Scenario1) => records = Scenario1Records

-----------------------------------------------------------------------------
(* C2.  As claimed: among the records of one parse that share (team,        *)
(* unit_type, position), the depth values in emission order are 1, 2, ...,  *)
(* N, also when a position code or a section header comes more than once.   *)

C2_DepthContiguousPerKey ==
    \A j \in DOMAIN records : records[j].depth = Cardinality(EarlierSameKey(j)) + 1

(* C2, amended.  Among the records built for one position entry (one line   *)
(* that opened a group), the depth values in emission order are 1, 2, ...,  *)
(* N; a later entry with the same unit and position code starts at 1 again. *)

C2_DepthContiguousPerEntry ==
    /\ \A j \in DOMAIN records : records[j].depth = Cardinality(EarlierSameGroup(j)) + 1
    /\ Len(src) = Len(records)

\* two entries of the same (team, unit, position), the first with two records
C2_Witness ==
    \E a, b, c \in DOMAIN records :
        /\ a < b /\ b < c
        /\ src[a].pos = src[b].pos /\ src[b].pos # src[c].pos
        /\ a \in EarlierSameKey(c)
        /\ records[b].depth = 2 /\ records[c].depth = 1

-----------------------------------------------------------------------------
(* C3.  A jersey line followed by a section-header or column-header literal *)
(* ends the group without a record for that pair, and the records of the    *)
(* complete pairs before it are emitted: a group of k pairs followed by     *)
(* such a partial pair gives exactly k records, and Scenario 5 gives        *)
(* exactly one record, for WR.                                              *)

PartialPairAt(q) == q + 1 < n /\ IsDigit(Line(q)) /\ AbortsPair(Line(q + 1))

C3_PartialPairKeepsEarlier ==
    /\ (mpc = "parsing" /\ pc = "outer" /\ pos_line >= 0) =>
          \A k \in 1..n :
             (WellFormedPairs(pos_line, k) /\ PartialPairAt(pos_line + 2 * k + 1))
                => GroupIs(pos_line, k)
    /\ (ParseEnd /\ lines = Scenario5) =>
          Len(records) = 1 /\ records[1].position = lWR

-----------------------------------------------------------------------------
(* C4.  Every record has a team that is not empty, and the team is          *)
(* "Unknown" when no line gives a team name.                                *)

C4_TeamNeverEmpty ==
    /\ \A j \in DOMAIN records : records[j].team # <<>>
    /\ mpc = "parsing" =>
          ((\A k \in DOMAIN lines : ~Qualifies(lines[k])) => team_name = sUnknown)

-----------------------------------------------------------------------------
(* C5.  Every record has a position made of uppercase letters only and a    *)
(* jersey made of decimal digits only, the jersey being its input line      *)
(* character for character.                                                 *)

AllIn(s, cs) == Len(s) > 0 /\ \A k \in DOMAIN s : s[k] \in cs

C5_PositionUpperJerseyDecimal ==
    \A j \in DOMAIN records :
        /\ AllIn(records[j].position, UpperLetters)
        /\ AllIn(records[j].jersey, DecimalDigits)
        /\ records[j].jersey = Line(src[j].jersey)

-----------------------------------------------------------------------------
(* C6.  A line sequence without a section-header line (compared without     *)
(* case) gives no record: the unit stays unset, every line is skipped and   *)
(* the parse returns the empty list.                                        *)

NoSectionLine(ls) == \A k \in DOMAIN ls : ~IsSectionLine(ls[k])

C6_NoHeaderNoRecords ==
    /\ (mpc = "parsing" /\ NoSectionLine(lines)) =>
          /\ records = <<>>
          /\ current_unit = None /\ current_pos = None
          /\ pc = "outer"
    /\ \A a \in DOMAIN outs :
          (team_pages[a].ok /\ NoSectionLine(team_pages[a].text))
             => outs[a].records = <<>>

\* a parse has ended on lines that hold a position code, jerseys and a name
\* but no section header
C6_Witness ==
    /\ ParseEnd /\ NoSectionLine(lines) /\ records = <<>>
    /\ \E k \in 0..(n - 4) :
          /\ IsNewPosition(k) /\ IsDigit(Line(k + 2)) /\ FreeText(Line(k + 3))

-----------------------------------------------------------------------------
(* C7.  As claimed: a position-code candidate whose next line is no jersey  *)
(* line, or that is the last line, is passed by advancing one line with     *)
(* current_unit, current_pos and the records unchanged; no record has it as *)
(* position; Scenario 3 gives no record.                                    *)

LookaheadFails(k) == ~(k + 1 < n /\ IsDigit(Line(k + 1)))

NoRecordFromFailedLookahead ==
    /\ \A j \in DOMAIN records : src[j].pos >= 0 /\ ~LookaheadFails(src[j].pos)
    /\ (ParseEnd /\ lines = Scenario3) => records = <<>>

C7_CandidateAlwaysSkipped ==
    /\ [][(mpc = "parsing" /\ mpc' = "parsing") =>
            \A k \in 0..(n - 1) :
               (i <= k /\ k < i' /\ Candidate(Line(k)) /\ LookaheadFails(k))
                  => (i' = i + 1 /\ UNCHANGED <<current_unit, current_pos, records>>)]_vars
    /\ []NoRecordFromFailedLookahead

(* C7, amended.  A position-code candidate (a line that is no section       *)
(* header) whose next line is no jersey line, or that is the last line, is  *)
(* passed by advancing one line with current_unit, current_pos and the      *)
(* records unchanged when it is the line the parser is at (in the outer     *)
(* loop, or where the pair loop expects a jersey); when it is the line      *)
(* right after a jersey line of the pair loop it is taken as that pair's    *)
(* name and a record with it as player is appended.  No record has it as    *)
(* position; Scenario 3 gives no record.                                    *)

C7_CandidateSkippedWhenCurrent ==
    /\ [][(mpc = "parsing" /\ i < n /\ Candidate(Line(i)) /\ LookaheadFails(i))
            => (i' = i + 1 /\ UNCHANGED <<current_unit, current_pos, records>>)]_vars
    /\ [][(mpc = "parsing" /\ pc = "inner" /\ i + 1 < n /\ i' = i + 2
              /\ Candidate(Line(i + 1)) /\ LookaheadFails(i + 1))
            => /\ records' = Append(records, Record(Line(i), Line(i + 1)))
               /\ UNCHANGED <<current_unit, current_pos>>]_vars
    /\ []NoRecordFromFailedLookahead

\* Scenario 3: the parser is past the candidate WR, whose next line is "Updated"
C7_Witness ==
    /\ mpc = "parsing" /\ lines = Scenario3 /\ i = 2
    /\ Candidate(Line(1)) /\ LookaheadFails(1)
    /\ current_unit = sOffense /\ current_pos = None /\ records = <<>>

-----------------------------------------------------------------------------
(* C8.  The parsing loop terminates: every step of the outer loop advances  *)
(* the index, every step of the inner loop advances the index or leaves the *)
(* loop, the index never passes the end of the lines and is at the end when *)
(* the loop ends, and every step leads to a state where main has ended or   *)
(* a step that changes the state can be taken (no step repeats a state for  *)
(* ever); the first step of main can always be taken.                       *)

C8_ParseTerminates ==
    /\ [][mpc = "parsing" =>
            /\ pc = "outer" => (i' > i \/ mpc' = "teams")
            /\ pc = "inner" => (i' > i \/ pc' = "outer")]_vars
    /\ [](mpc = "parsing" => i <= n)
    /\ [](ParseEnd => i = n)
    /\ [][(Done \/ ENABLED <<Next>>_vars)']_vars

\* main has ended after a parse that went through the inner loop to the end
C8_Witness ==
    /\ Done /\ i = n /\ n > 0
    /\ records # <<>>
    /\ \E k \in 0..(n - 1) : pos_line < k /\ ~IsDigit(Line(k)) /\ src[Len(src)].name < k

-----------------------------------------------------------------------------
(* C9.  A record is appended only while current_unit and current_pos are    *)
(* set and carries them; current_pos, cleared by a section header, is set   *)
(* again by a position entry only, so nothing is emitted in between.        *)

C9_EmitOnlyInUnitAndPosition ==
    /\ [][Len(records') > Len(records) =>
            /\ current_unit # None /\ current_pos # None
            /\ records'[Len(records')].unit_type = current_unit
            /\ records'[Len(records')].position = current_pos]_vars
    /\ [][(mpc = "parsing" /\ pc = "outer" /\ i < n /\ IsSectionLine(Line(i)))
            => current_pos' = None]_vars
    /\ [][(current_pos = None /\ current_pos' # None)
            => (IsNewPosition(i) /\ current_pos' = Line(i) /\ current_unit # None)]_vars
    /\ [](\A j \in DOMAIN records :
             records[j].unit_type # None /\ records[j].position # None)

\* after the last record a section header cleared current_pos, and the
\* jersey/name pair after that header gave no record
C9_Witness ==
    /\ ParseEnd /\ current_pos = None /\ records # <<>>
    /\ \E k \in 0..(n - 3) :
          /\ src[Len(src)].name < k
          /\ IsSectionLine(Line(k))
          /\ IsDigit(Line(k + 1)) /\ FreeText(Line(k + 2))

-----------------------------------------------------------------------------
(* C10.  Parsing depends on the lines alone: two parses of the same page in *)
(* one run of main return the same records, whatever was parsed in between  *)
(* (the first page of a run is parsed by a parser that parsed nothing       *)
(* before), and every parse starts from the same unit, position and         *)
(* records.                                                                 *)

C10_ParseIsFunctionOfLines ==
    /\ \A a, b \in DOMAIN outs : team_pages[a] = team_pages[b] => outs[a] = outs[b]
    /\ (mpc = "parsing" /\ pc = "outer" /\ i = 0) =>
          /\ records = <<>>
          /\ current_unit = None /\ current_pos = None

\* page B alone, then page A, then page B again, A and B both with records
C10_Witness ==
    /\ Len(outs) = 3
    /\ team_pages[1] = team_pages[3] /\ team_pages[1] # team_pages[2]
    /\ outs[2].ok /\ outs[2].records # <<>>
    /\ outs[3].ok /\ outs[3].records # <<>>

-----------------------------------------------------------------------------
(* C11.  As claimed: the player of every record is the name token with each *)
(* hyphen replaced by one space and each hyphen-separated part with its     *)
(* first letter uppercase and the rest lowercase; it holds no hyphen;       *)
(* "brady-anderson" gives "Brady Anderson", "aj-smith" gives "Aj Smith".    *)

PartsCapitalized(token) ==
    [k \in DOMAIN token |->
        IF token[k] = "-" THEN " "
        ELSE IF k = 1 \/ token[k - 1] = "-" THEN CharUpper(token[k])
        ELSE CharLower(token[k])]

NameExamples(t, p) ==
    /\ t = lBrady => p = <<"B","r","a","d","y"," ","A","n","d","e","r","s","o","n">>
    /\ t = lAj => p = <<"A","j"," ","S","m","i","t","h">>

C11_PartsFirstUpperRestLower ==
    \A j \in DOMAIN records :
        LET t == Line(src[j].name)
            p == records[j].player
        IN  /\ p = PartsCapitalized(t)
            /\ ~Contains(p, sHyphen)
            /\ NameExamples(t, p)

(* C11, amended.  The player of every record is the name token (of ASCII    *)
(* letters and other characters that have no case) with each hyphen         *)
(* replaced by one space, every letter that starts the token or follows a   *)
(* character that is no letter (a space, the space of a hyphen, an          *)
(* apostrophe, a digit) uppercase and every other letter lowercase; it      *)
(* holds no hyphen and differs from the token in case and in hyphen versus  *)
(* space only; "brady-anderson" gives "Brady Anderson", "aj-smith" gives    *)
(* "Aj Smith", and "a'a" gives "A'A".                                       *)

C11_TitleCasedAfterEveryNonLetter ==
    \A j \in DOMAIN records :
        LET t == Line(src[j].name)
            p == records[j].player
        IN  /\ Len(p) = Len(t)
            /\ \A k \in DOMAIN t :
                  /\ t[k] = "-" => p[k] = " "
                  /\ t[k] # "-" => CharLower(p[k]) = CharLower(t[k])
                  /\ CharIsCased(p[k]) =>
                        (p[k] \in UpperLetters <=> (k = 1 \/ ~CharIsCased(p[k - 1])))
            /\ ~Contains(p, sHyphen)
            /\ NameExamples(t, p)

\* a record built from the name token "aj-smith"
C11_Witness ==
    \E j \in DOMAIN records :
        Line(src[j].name) = lAj /\ records[j].player = <<"A","j"," ","S","m","i","t","h">>

(***************************************************************************)
(* C12.  The program has a table-based extraction path: for a table whose  *)
(* header row contains "pos" and "player 1" it emits one record with       *)
(* depth 1 per data row, and skips a data row whose first cell is empty or *)
(* "pos", that has fewer than 3 cells, or whose jersey and player cells    *)
(* are both empty.  Header "Pos No Player 1" with data row                 *)
(* [WR, 12, John Doe] gives one record with depth 1, and a repeated        *)
(* [Pos, No, Player 1] row gives none.  The program has one extraction     *)
(* path, parse_pf_page, which receives the cells of a table as lines; the  *)
(* claim is stated of the records that path returns for the page of a      *)
(* table under the heading of its unit.                                    *)
(***************************************************************************)

\* the header row holds "pos" and "player 1", compared without case
TableAccepted(rows) ==
    /\ rows # <<>>
    /\ LET header == Head(rows)
       IN  /\ \E k \in DOMAIN header : Contains(Lower(header[k]), <<"p","o","s">>)
           /\ \E k \in DOMAIN header :
                 Contains(Lower(header[k]), <<"p","l","a","y","e","r"," ","1">>)

DataRowKept(row) ==
    /\ Len(row) >= 3
    /\ row[1] # <<>>
    /\ Lower(row[1]) # <<"p","o","s">>
    /\ ~(row[2] = <<>> /\ row[3] = <<>>)

C12_TableRowGivesDepthOneRecord ==
    \A rows \in Tables :
        (ParseEnd /\ lines = TablePage(rows) /\ TableAccepted(rows)) =>
            LET kept == SelectSeq(Tail(rows), DataRowKept)
            IN  /\ Len(records) = Len(kept)
                /\ \A j \in DOMAIN kept :
                      /\ records[j].position = kept[j][1]
                      /\ records[j].depth = 1
                      /\ records[j].jersey = kept[j][2]
                      /\ records[j].player = kept[j][3]

(***************************************************************************)
(* C13.  Every section-header line, in whatever state and place of the     *)
(* stream it occurs, sets the current unit and clears the current          *)
(* position: the unit_type of every record is the unit named by the        *)
(* nearest section-header line before the record's jersey line, also when  *)
(* that header came directly after a jersey line inside a position group.  *)
(***************************************************************************)

\* the unit a section-header line names: lines 139-153
UnitNamed(l) ==
    IF Lower(l) = sOffenseLow THEN sOffense
    ELSE IF Lower(l) = sDefenseLow THEN sDefense
    ELSE sSpecialTeams

\* the section-header lines before line k
HeadersBefore(k) == {h \in 0..(k - 1) : IsSectionLine(Line(h))}

LastOf(S) == CHOOSE h \in S : \A g \in S : g <= h

C13_UnitIsNearestHeader ==
    \A j \in DOMAIN records :
        LET hs == HeadersBefore(src[j].jersey)
        IN  /\ hs # {}
            /\ records[j].unit_type = UnitNamed(Line(LastOf(hs)))
            /\ src[j].pos > LastOf(hs)

(***************************************************************************)
(* C14.  Inside a position group, when the line consumed as name token is  *)
(* a column-header literal (Pos, No, Player, Player 1..Player 5), a        *)
(* metadata line (one that starts with "updated", compared without case)   *)
(* or a unit name, the group is aborted and no record is emitted for that  *)
(* pair: no record has a player built from a header, metadata or unit-name *)
(* line.                                                                   *)
(***************************************************************************)

C14_NoPlayerFromHeaderOrMetadata ==
    \A j \in DOMAIN records :
        LET l == Line(src[j].name)
        IN  ~IsHeaderOrUpdated(l) /\ ~IsSectionLine(l)

(***************************************************************************)
(* C15.  Ranked-entry consumption of a position group continues only while *)
(* the next line is a jersey-number line: once a line that is not a jersey *)
(* number is met where a jersey is expected, the group emits no further    *)
(* record, and a jersey/name pair that follows a stray non-digit line is   *)
(* skipped rather than emitted for that position.  Stated of the lines the *)
(* group looks at: between the first of them, two lines after the position *)
(* line, and the jersey line of a record lie only the pairs of the earlier *)
(* records of the group, one pair per rank.                                *)
(***************************************************************************)

C15_NoRecordAfterStrayLine ==
    \A j \in DOMAIN records : src[j].jersey = src[j].pos + 2 * records[j].depth

\* line k is the jersey or the name line of a record of the group of record j
InPairOfGroup(k, j) ==
    \E e \in DOMAIN records :
        src[e].pos = src[j].pos /\ k \in {src[e].jersey, src[e].name}

(* C15, amended.  A line that is not a jersey number, met where a jersey   *)
(* is expected, and that is no section header and does not start a new     *)
(* position, is skipped and the group stays open: position, rank, unit and *)
(* records are unchanged and the next line is looked at as a jersey again. *)
(* A jersey/name pair that follows the stray line is emitted for that      *)
(* position with the next rank: between the first line a group looks at    *)
(* and the jersey line of each of its records lie only the pairs of its    *)
(* earlier records and skipped lines that are neither digit lines nor      *)
(* section headers.                                                        *)

C15_StrayLineSkippedGroupContinues ==
    /\ [][(InJerseySlot /\ ~IsDigit(Line(i))) =>
             /\ i' = i + 1
             /\ pc' = "inner"
             /\ UNCHANGED <<records, current_unit, current_pos, depth>>]_vars
    /\ [](\A j \in DOMAIN records :
            /\ records[j].position = Line(src[j].pos)
            /\ records[j].depth =
                  Cardinality({e \in 1..(j - 1) : src[e].pos = src[j].pos}) + 1
            /\ \A k \in (src[j].pos + 2)..(src[j].jersey - 1) :
                  \/ InPairOfGroup(k, j)
                  \/ ~IsDigit(Line(k)) /\ ~IsSectionLine(Line(k)))

\* a record of rank 2 whose jersey line comes after a skipped line that
\* follows the pair of rank 1
C15_Witness ==
    \E j \in DOMAIN records :
        /\ j > 1
        /\ records[j].depth = 2
        /\ src[j - 1].pos = src[j].pos
        /\ src[j].jersey > src[j - 1].name + 1

(***************************************************************************)
(* C16.  Team-name discovery is first-match-wins and fixed before parsing  *)
(* starts: the team of every record of one parse is the same value,        *)
(* computed from the first line that contains "Depth Chart" and does not   *)
(* contain "Printer-Friendly" (later qualifying lines never change it),    *)
(* and it is "Unknown" exactly when no line qualifies.                     *)
(***************************************************************************)

\* line k holds the marker and not the generic heading
QualifiesAt(k) ==
    Contains(Line(k), sDepthChart) /\ ~Contains(Line(k), sPrinterFriendly)

NoLineQualifies == \A k \in 0..(n - 1) : ~QualifiesAt(k)

\* the team is what the first qualifying line leaves once the marker is
\* removed and blanks and "#" are stripped
TeamFromFirstQualifying ==
    \A k \in 0..(n - 1) :
        (QualifiesAt(k) /\ \A m \in 0..(k - 1) : ~QualifiesAt(m)) =>
            /\ team_name = Strip(StripChars(Strip(Remove(Line(k), sDepthChart)), {"#"}))
            /\ Line(k) = lArmy => team_name = <<"A","r","m","y">>

OneTeamPerParse == \A j \in DOMAIN records : records[j].team = team_name

C16_TeamUnknownExactlyWhenNoLineQualifies ==
    mpc = "parsing" =>
        /\ OneTeamPerParse
        /\ TeamFromFirstQualifying
        /\ team_name = sUnknown <=> NoLineQualifies

(* C16, amended.  Team-name discovery is first-match-wins and fixed before *)
(* parsing starts: the team of every record of one parse is the same       *)
(* value, computed from the first line that contains "Depth Chart" and     *)
(* does not contain "Printer-Friendly" (later qualifying lines never       *)
(* change it, and no step of the parse changes it), and it is "Unknown"    *)
(* when no line qualifies; a first qualifying line "Unknown Depth Chart"   *)
(* gives "Unknown" as well.                                                *)

C16_TeamFirstMatchFixed ==
    /\ [](mpc = "parsing" =>
            /\ OneTeamPerParse
            /\ TeamFromFirstQualifying
            /\ NoLineQualifies => team_name = sUnknown
            /\ (n > 0 /\ Line(0) = lUnknownChart) => team_name = sUnknown)
    /\ [][(mpc = "parsing" /\ mpc' = "parsing") =>
             (team_name' = team_name /\ lines' = lines)]_vars

\* a record of the team Army from a page that names Navy on a later line
C16_Witness ==
    /\ ParseEnd
    /\ lines = ScenarioTwoTeamLines
    /\ \E j \in DOMAIN records : records[j].team = <<"A","r","m","y">>

(***************************************************************************)
(* C17.  For every input line sequence (the empty one and those that end   *)
(* right after a position code or a jersey line included) parse_pf_page    *)
(* never reads a line at an index outside 0..n-1: the current line is read *)
(* only when i < n, the lookahead line lines[i+1] only when i+1 < n, and   *)
(* reaching the end of the stream ends iteration with the records gathered *)
(* so far instead of a fault.                                              *)
(***************************************************************************)

\* lines 135 and 176: the index of the current line, when the loop test passes
CurrentRead == IF mpc = "parsing" /\ HasLine(i) THEN {i} ELSE {}

\* line 166 is reached past the continues of lines 139-163, line 183 past
\* the break of line 179; `and` reads lines[i + 1] only after i + 1 < n
LookaheadRead ==
    IF \/ /\ InOuter
          /\ Lower(Line(i)) \notin section_names
          /\ InSection
          /\ ~IsHeaderOrUpdated(Line(i))
          /\ is_position_token(Line(i))
          /\ HasLine(i + 1)
       \/ /\ InInner
          /\ HasLine(i)
          /\ Lower(Line(i)) \notin section_names
          /\ is_position_token(Line(i))
          /\ HasLine(i + 1)
    THEN {i + 1}
    ELSE {}

\* lines 191-196: the name token is read past the test of line 193
NameRead == IF InJerseySlot /\ IsDigit(Line(i)) /\ HasLine(i + 1) THEN {i + 1} ELSE {}

C17_ReadsWithinBounds ==
    /\ [](/\ CurrentRead \subseteq 0..(n - 1)
          /\ LookaheadRead \subseteq 0..(n - 1)
          /\ NameRead \subseteq 0..(n - 1)
          /\ \A k \in DOMAIN outs : outs[k].ok = team_pages[k].ok)
    /\ [][(mpc = "parsing" /\ pc = "outer" /\ i >= n) =>
             /\ mpc' = "teams"
             /\ outs' = Append(outs, [ok |-> TRUE, records |-> records])]_vars
    /\ [][(mpc = "parsing" /\ pc = "inner" /\ i >= n) =>
             (pc' = "outer" /\ UNCHANGED <<i, records>>)]_vars

\* the parse of a page whose last two lines are the first jersey after a
\* position code and one more jersey line has ended
C17_Witness ==
    /\ ParseEnd
    /\ n >= 3
    /\ pos_line = n - 3
    /\ IsDigit(Line(n - 2))
    /\ IsDigit(Line(n - 1))

(***************************************************************************)
(* C18.  The cursor of parse_pf_page is single-pass: the index never       *)
(* decreases, the name line of every record is the line directly after its *)
(* jersey line, records are emitted in the order of their jersey lines in  *)
(* the input, and no input line supplies the jersey or the name of more    *)
(* than one record.                                                        *)
(***************************************************************************)

\* the lines a record took its jersey and its name from
PairLines(j) == {src[j].jersey, src[j].name}

C18_SinglePassCursor ==
    /\ [][(mpc = "parsing" /\ mpc' = "parsing") => i' >= i]_vars
    /\ [](/\ Len(src) = Len(records)
          /\ \A j \in DOMAIN records :
                /\ src[j].name = src[j].jersey + 1
                /\ src[j].name < n
                /\ records[j].jersey = Line(src[j].jersey)
                /\ records[j].player = clean_name_token(Line(src[j].name))
          /\ \A j, k \in DOMAIN records :
                j < k => /\ src[j].jersey < src[k].jersey
                         /\ PairLines(j) \cap PairLines(k) = {}
          /\ mpc = "parsing" =>
                \A j \in DOMAIN records : src[j].name < i)

\* two records from three digit lines in a row: the middle one is the name
\* of the first pair and not the jersey of a second
C18_Witness ==
    /\ ParseEnd
    /\ \E j \in DOMAIN records :
          /\ IsDigit(Line(src[j].name))
          /\ src[j].name + 1 < n
          /\ IsDigit(Line(src[j].name + 1))

(***************************************************************************)
(* C19.  In main, team URLs are processed one after another and a failure  *)
(* while scraping one team is isolated: an exception raised by parse_team  *)
(* for a team adds none of that team's records to all_records, does not    *)
(* stop the processing of the following teams, and the output is written   *)
(* once after all teams, holding exactly the records of the teams that     *)
(* parsed without error, in team order.                                    *)
(***************************************************************************)

\* the records of the teams handled so far, in team order; a team that
\* failed has none
RECURSIVE RecordsOf(_)
RecordsOf(os) ==
    IF os = <<>> THEN <<>> ELSE RecordsOf(SubSeq(os, 1, Len(os) - 1)) \o os[Len(os)].records

TeamFails == mpc = "teams" /\ u <= Len(team_pages) /\ ~team_pages[u].ok

C19_FailureIsolatedOutputOnce ==
    /\ [](/\ all_records = RecordsOf(outs)
          /\ Len(outs) = u - 1
          /\ \A k \in DOMAIN outs :
                /\ outs[k].ok = team_pages[k].ok
                /\ ~outs[k].ok => outs[k].records = <<>>
          /\ Done => (Len(outs) = Len(team_pages) /\ csv = all_records)
          /\ ~Done => csv = <<>>)
    /\ [][TeamFails => (all_records' = all_records /\ u' = u + 1 /\ mpc' = "teams")]_vars
    /\ [][(mpc = "parsing" /\ pc = "outer" /\ i >= n) =>
             (all_records' = all_records \o records /\ u' = u + 1)]_vars
    /\ [][Done => UNCHANGED <<csv, all_records>>]_vars

\* the output is written after a team that failed between two teams that
\* gave records
C19_Witness ==
    /\ Done
    /\ csv # <<>>
    /\ \E k \in DOMAIN outs :
          /\ ~outs[k].ok
          /\ k > 1 /\ outs[k - 1].records # <<>>
          /\ k < Len(outs) /\ outs[k + 1].records # <<>>

=============================================================================
